---- MODULE Spec2Model ----
(***************************************************************************)
(* Model of the inventory optimizer of aura_chain                          *)
(* (app/agents/mcts_optimizer.py): the InventoryState transition, the      *)
(* MCTS search tree and its iteration loop, the baseline evaluator, the    *)
(* bullwhip metric and MCTSOptimizerAgent.process around them.             *)
(*                                                                         *)
(* Arithmetic.  The program computes in floating point; the model computes *)
(* the same quantities exactly, as integers in a fixed unit.  For a demand *)
(* series of n observations every quantity (stock, demand, order) is kept  *)
(* in units of 1/(90*n): in that unit the ten values of                    *)
(* np.linspace(0.1, 3*mean, 10) are the integers 9*n + k*(30*sum - n),     *)
(* k = 0..9.  Costs are rate * quantity, in the same unit.  A reward       *)
(* r in [0,1] is kept as its numerator r * max_penalty.                    *)
(***************************************************************************)
EXTENDS Integers, Sequences, FiniteSets, TLC

\* ------------------------------------------------------------------------
\* Bounds of the model
\* ------------------------------------------------------------------------
\* the transition probe: quantities, cost rates and days it ranges over
MaxQty == 3
MaxRate == 2
MaxDays == 3
\* the iteration budget of the requests with horizon 1 and with horizon 2
MaxIterWide == 12
MaxIterDeep == 2
\* the wall-clock time a search may take, in ms
MaxElapsedMs == 1

\* ------------------------------------------------------------------------
\* Arithmetic helpers (python's min, max, sum)
\* ------------------------------------------------------------------------
Min(a, b) == IF a <= b THEN a ELSE b

Max(a, b) == IF a >= b THEN a ELSE b

RECURSIVE SumSeq(_)
SumSeq(s) == IF s = <<>> THEN 0 ELSE Head(s) + SumSeq(Tail(s))

\* ------------------------------------------------------------------------
\* InventoryState
\* ------------------------------------------------------------------------
InventoryState(current_stock, day, total_cost) ==
    [current_stock |-> current_stock, day |-> day, total_cost |-> total_cost]

is_terminalStrict(self, horizon) == self.day > horizon

is_terminal(self, horizon) == self.day >= horizon

\* the locals of InventoryState.transition
TransitionLocalsNoFloor(self, order_qty, demand) ==
    LET new_stock == self.current_stock + order_qty
    IN  [new_stock    |-> new_stock,
         fulfilled    |-> Min(demand, new_stock),
         stockout     |-> Max(0, demand - new_stock),
         ending_stock |-> new_stock - demand]

TransitionLocals(self, order_qty, demand) ==
    LET new_stock == self.current_stock + order_qty
    IN  [new_stock    |-> new_stock,
         fulfilled    |-> Min(demand, new_stock),
         stockout     |-> Max(0, demand - new_stock),
         ending_stock |-> Max(0, new_stock - demand)]

\* InventoryState.transition: self is the receiver as the call leaves it,
\* ret the object the call returns.
transitionInPlace(self, order_qty, demand, holding_cost, stockout_cost) ==
    LET l == TransitionLocals(self, order_qty, demand)
        day_holding_cost  == holding_cost * l.ending_stock
        day_stockout_cost == stockout_cost * l.stockout
        new == InventoryState(l.ending_stock, self.day + 1,
                   self.total_cost + day_holding_cost + day_stockout_cost)
    IN  [self |-> new, ret |-> new]

transition(self, order_qty, demand, holding_cost, stockout_cost) ==
    LET l == TransitionLocals(self, order_qty, demand)
        day_holding_cost  == holding_cost * l.ending_stock
        day_stockout_cost == stockout_cost * l.stockout
    IN  [self |-> self,
         ret  |-> InventoryState(l.ending_stock, self.day + 1,
                      self.total_cost + day_holding_cost + day_stockout_cost)]

\* ------------------------------------------------------------------------
\* Demand statistics and the action space (_run_mcts, lines 244-255)
\* ------------------------------------------------------------------------
\* the unit of quantity for a demand series: 1.0 is Unit(h) model units
Unit(demand_history) == 90 * Len(demand_history)

\* a dataset value x (an integer) as a quantity in model units
Qty(x, demand_history) == x * Unit(demand_history)

RECURSIVE SortedSeq(_)
SortedSeq(S) ==
    IF S = {} THEN <<>>
    ELSE LET m == CHOOSE x \in S : \A y \in S : x <= y
         IN  <<m>> \o SortedSeq(S \ {m})

SetOf(s) == {s[i] : i \in 1..Len(s)}

\* np.linspace(0.1, mean_demand * 3, 10), in model units
Linspace(demand_history) ==
    LET n   == Len(demand_history)
        sum == SumSeq(demand_history)
    IN  [k \in 1..10 |-> 9 * n + (k - 1) * (30 * sum - n)]

ActionSpaceUnsorted(demand_history) ==
    <<0>> \o Linspace(demand_history)

\* action_space = sorted(list(set([0.0] + linspace)))
ActionSpace(demand_history) ==
    SortedSeq(SetOf(<<0>> \o Linspace(demand_history)))

MaxPenaltyNoGuard(stockout_cost, demand_history, horizon) ==
    stockout_cost * (2 * 90 * SumSeq(demand_history)) * horizon

\* max_penalty = stockout_cost * (mean_demand * 2) * horizon, 1.0 if that is 0
MaxPenalty(stockout_cost, demand_history, horizon) ==
    LET raw == stockout_cost * (2 * 90 * SumSeq(demand_history)) * horizon
    IN  IF raw = 0 THEN Unit(demand_history) ELSE raw

\* ------------------------------------------------------------------------
\* Fixed-point sqrt and log for UCB1
\* ------------------------------------------------------------------------
RECURSIVE ISqrtIn(_, _, _)
ISqrtIn(x, lo, hi) ==
    IF lo >= hi THEN lo
    ELSE LET mid == (lo + hi + 1) \div 2
         IN  IF mid * mid <= x THEN ISqrtIn(x, mid, hi)
             ELSE ISqrtIn(x, lo, mid - 1)

\* floor(sqrt(x)) for 0 <= x < 2^30
ISqrt(x) == ISqrtIn(x, 0, 32767)

\* math.log(n) * 10^6 for n = 1..40
LnMicro ==
    << 0, 693147, 1098612, 1386294, 1609438, 1791759, 1945910, 2079442,
       2197225, 2302585, 2397895, 2484907, 2564949, 2639057, 2708050,
       2772589, 2833213, 2890372, 2944439, 2995732, 3044522, 3091042,
       3135494, 3178054, 3218876, 3258097, 3295837, 3332205, 3367296,
       3401197, 3433987, 3465736, 3496508, 3526361, 3555348, 3583519,
       3610918, 3637586, 3663562, 3688879 >>

\* ------------------------------------------------------------------------
\* MCTSNode.  A tree is a sequence of nodes, a node is named by its index;
\* parent = 0 is None.  Python lists that are mutated (untried_actions) are
\* objects of a heap: a node holds the index of its list.
\* ------------------------------------------------------------------------
None == 0

ExplorationWeightMilli == 1414

UcbScale == 10000

MCTSNode(state, parent, action, untried_actions) ==
    [state |-> state, parent |-> parent, action |-> action,
     children |-> <<>>, visits |-> 0, total_reward |-> 0,
     untried_actions |-> untried_actions]

is_fully_expanded(heap, node) == Len(heap[node.untried_actions]) = 0

\* the UCB1 key of child c, times UcbScale; total_reward is kept as a
\* numerator over reward_den
UCB1(c, parent_visits, reward_den) ==
    LET exploit == IF c.total_reward = 0 THEN 0
                   ELSE (c.total_reward * UcbScale) \div (c.visits * reward_den)
        root2   == ISqrt((LnMicro[parent_visits] * 100) \div c.visits)
    IN  exploit + (ExplorationWeightMilli * root2) \div 1000

LastMax(seq, keys) ==
    LET i == CHOOSE i \in 1..Len(seq) :
                 /\ \A j \in 1..Len(seq) : keys[j] <= keys[i]
                 /\ \A j \in (i + 1)..Len(seq) : keys[j] < keys[i]
    IN  seq[i]

\* python's max(seq, key): the first element whose key is maximal; keys[i]
\* is the key of seq[i]
FirstMax(seq, keys) ==
    LET i == CHOOSE i \in 1..Len(seq) :
                 /\ \A j \in 1..Len(seq) : keys[j] <= keys[i]
                 /\ \A j \in 1..(i - 1) : keys[j] < keys[i]
    IN  seq[i]

\* MCTSNode.best_child: exc names the exception the key raises, if any
best_child(nodes, self, reward_den) ==
    LET kids == nodes[self].children
        keys == [i \in 1..Len(kids) |->
                    UCB1(nodes[kids[i]], nodes[self].visits, reward_den)]
    IN  IF kids = <<>> THEN [exc |-> "none", node |-> self]
        ELSE IF nodes[kids[1]].visits = 0
             THEN [exc |-> "ZeroDivisionError", node |-> self]
        ELSE IF nodes[self].visits = 0
             THEN [exc |-> "ValueError", node |-> self]
        ELSE IF \E i \in 1..Len(kids) : nodes[kids[i]].visits = 0
             THEN [exc |-> "ZeroDivisionError", node |-> self]
        ELSE [exc |-> "none", node |-> FirstMax(kids, keys)]

\* list.remove(x): the list without the first occurrence of x
Remove(list, x) ==
    LET i == CHOOSE i \in 1..Len(list) :
                 list[i] = x /\ \A j \in 1..(i - 1) : list[j] # x
    IN  SubSeq(list, 1, i - 1) \o SubSeq(list, i + 1, Len(list))

add_childSharesList(t, self, action, state, action_space) ==
    LET child == Len(t.nodes) + 1
        mine  == t.nodes[self].untried_actions
    IN  [nodes |-> Append(
                     [t.nodes EXCEPT ![self].children = Append(@, child)],
                     MCTSNode(state, self, action, action_space)),
         heap  |-> [t.heap EXCEPT ![mine] = Remove(@, action)]]

add_childKeepsUntried(t, self, action, state, action_space) ==
    LET newlist == Len(t.heap) + 1
        child   == Len(t.nodes) + 1
        heap1   == Append(t.heap, t.heap[action_space])
    IN  [nodes |-> Append(
                     [t.nodes EXCEPT ![self].children = Append(@, child)],
                     MCTSNode(state, self, action, newlist)),
         heap  |-> heap1]

\* MCTSNode.add_child: the new child is the last node of the tree and owns a
\* new list, a copy of action_space
add_child(t, self, action, state, action_space) ==
    LET newlist == Len(t.heap) + 1
        child   == Len(t.nodes) + 1
        heap1   == Append(t.heap, t.heap[action_space])
        mine    == t.nodes[self].untried_actions
    IN  [nodes |-> Append(
                     [t.nodes EXCEPT ![self].children = Append(@, child)],
                     MCTSNode(state, self, action, newlist)),
         heap  |-> [heap1 EXCEPT ![mine] = Remove(@, action)]]

updateRewardOnly(node, reward) ==
    [node EXCEPT !.total_reward = @ + reward]

\* MCTSNode.update
update(node, reward) ==
    [node EXCEPT !.visits = @ + 1, !.total_reward = @ + reward]

\* ------------------------------------------------------------------------
\* The dataset.  A DataFrame is a sequence of columns [name, numeric, values];
\* a missing cell is NaN.  Cell values are integers.
\* ------------------------------------------------------------------------
NaN == -1

demand_cols == <<"demand", "sales", "quantity", "units_sold", "qty">>

stock_cols == <<"stock", "inventory", "current_stock", "on_hand">>

\* `keyword in name.lower()`, for the column names of the model
Contains(name, keyword) ==
    CASE name = "sales"         -> keyword = "sales"
      [] name = "daily_demand"  -> keyword = "demand"
      [] name = "current_stock" -> keyword \in {"stock", "current_stock"}
      [] OTHER                  -> FALSE

\* Series.dropna().values
DropNa(values) == SelectSeq(values, LAMBDA v : v # NaN)

\* the columns of df whose name contains the keyword, in column order
Matching(df, keyword) == SelectSeq(df, LAMBDA c : Contains(c.name, keyword))

RECURSIVE FirstMatch(_, _)
\* the first column matched by the first keyword that matches any; <<>> if none
FirstMatch(df, keywords) ==
    IF keywords = <<>> THEN <<>>
    ELSE IF Matching(df, Head(keywords)) # <<>>
         THEN <<Matching(df, Head(keywords))[1]>>
         ELSE FirstMatch(df, Tail(keywords))

\* MCTSOptimizerAgent._extract_demand
extract_demand(df) ==
    LET named   == FirstMatch(df, demand_cols)
        numeric == SelectSeq(df, LAMBDA c : c.numeric)
    IN  IF named # <<>> THEN DropNa(named[1].values)
        ELSE IF Len(numeric) > 0 THEN DropNa(numeric[1].values)
        ELSE <<>>

\* the values _extract_demand returns are numbers: np.mean of a column of
\* text raises TypeError
DemandNumeric(df) ==
    LET named   == FirstMatch(df, demand_cols)
    IN  named # <<>> => named[1].numeric

\* MCTSOptimizerAgent._get_current_stock, in model units
get_current_stock(df, demand_data) ==
    LET named == FirstMatch(df, stock_cols)
    IN  IF named # <<>>
        THEN Qty(named[1].values[Len(named[1].values)], demand_data)
        ELSE 2 * 90 * SumSeq(demand_data)

\* ------------------------------------------------------------------------
\* One call of MCTSOptimizerAgent.process: its request, its locals, the
\* locals of the _run_mcts it awaits, and its response
\* ------------------------------------------------------------------------
Frac(num, den) == [num |-> num, den |-> den]

NoState == InventoryState(0, 0, 0)

NoSolution ==
    [reorder_point |-> 0, order_quantity |-> 0, safety_stock |-> 0,
     expected_cost |-> Frac(0, 1), explored_states |-> 0,
     computation_time_ms |-> 0]

NoBullwhip ==
    [before |-> Frac(0, 1), after |-> Frac(0, 1),
     improvement_percentage |-> Frac(0, 1)]

NoData ==
    [optimal_action |-> [reorder_point |-> 0, order_quantity |-> 0,
                         safety_stock |-> 0],
     expected_savings |-> [amount_inr |-> Frac(0, 1),
                           percentage |-> Frac(0, 1)],
     bullwhip_reduction |-> NoBullwhip,
     simulation_stats |-> [iterations |-> 0, explored_states |-> 0,
                           computation_time_ms |-> 0,
                           baseline_cost |-> 0,
                           optimized_cost |-> Frac(0, 1)],
     interpretation |-> "none"]

NoResponse == [returned |-> FALSE, success |-> FALSE, has_data |-> FALSE,
               data |-> NoData, error |-> "none"]

\* AgentResponse(agent_name, success, data, error)
AgentResponse(success, has_data, data, error) ==
    [returned |-> TRUE, success |-> success, has_data |-> has_data,
     data |-> data, error |-> error]

NewCall(request) ==
    [pc |-> "start", request |-> request, invoked |-> <<>>,
     \* locals of process
     demand_data |-> <<>>, current_stock |-> 0,
     optimal_solution |-> NoSolution, baseline_cost |-> 0,
     bullwhip_metrics |-> NoBullwhip, interpretation |-> "none",
     exc |-> "none", response |-> NoResponse,
     \* seconds spent awaiting generate_content
     waited |-> 0,
     \* the states of the random generator that the call drew from
     drawn |-> <<>>,
     \* locals of _run_mcts
     heap |-> <<>>, action_space |-> None, max_penalty |-> 0,
     nodes |-> <<>>, explored_states |-> 0, i |-> 0, node |-> None,
     state |-> NoState, sim_state |-> NoState, normalized_reward |-> 0,
     \* which values are np.float64 rather than float: the cost of the
     \* rollout, the total_reward of nodes, the expected_cost returned
     sim_numpy |-> FALSE, numpy_rewards |-> {}, numpy_cost |-> FALSE,
     \* locals of _calculate_baseline_cost, and the path it sampled
     bstate |-> NoState, bday |-> 0, bdemands |-> <<>>, bcosts |-> <<>>]

Idle == [NewCall([has_dataset |-> FALSE, dataset |-> <<>>,
                  holding_cost |-> 0, stockout_cost |-> 0,
                  horizon |-> 0, iterations |-> 0]) EXCEPT !.pc = "idle"]

\* an exception propagates to the except clause of process (line 191)
Raise(r, e) == [r EXCEPT !.pc = "except", !.exc = e]

Invoke(r, name) == [r EXCEPT !.invoked = Append(@, name)]

\* process, lines 104-134
ProcessStartNoLenCheck(r) ==
    IF ~r.request.has_dataset
    THEN [r EXCEPT !.pc = "done",
                   !.response = AgentResponse(FALSE, FALSE, NoData,
                                    "No dataset provided for optimization")]
    ELSE LET df == r.request.dataset
             demand_data == extract_demand(df)
             r1 == Invoke(r, "_extract_demand")
         IN  [Invoke(Invoke(r1, "_get_current_stock"), "_run_mcts") EXCEPT
                 !.pc = "mcts",
                 !.demand_data = demand_data,
                 !.current_stock = get_current_stock(df, demand_data)]

ProcessStart(r) ==
    IF ~r.request.has_dataset
    THEN [r EXCEPT !.pc = "done",
                   !.response = AgentResponse(FALSE, FALSE, NoData,
                                    "No dataset provided for optimization")]
    ELSE LET df == r.request.dataset
             demand_data == extract_demand(df)
             r1 == Invoke(r, "_extract_demand")
         IN  IF Len(demand_data) = 0
             THEN [r1 EXCEPT !.pc = "done",
                             !.demand_data = demand_data,
                             !.response = AgentResponse(FALSE, FALSE, NoData,
                                 "Could not extract demand data from dataset")]
             ELSE IF ~DemandNumeric(df) /\ FirstMatch(df, stock_cols) = <<>>
             THEN Raise([Invoke(r1, "_get_current_stock") EXCEPT
                            !.demand_data = demand_data], "TypeError")
             ELSE [Invoke(Invoke(r1, "_get_current_stock"), "_run_mcts") EXCEPT
                     !.pc = "mcts",
                     !.demand_data = demand_data,
                     !.current_stock = get_current_stock(df, demand_data)]

\* _run_mcts, lines 239-260: list 1 of the heap is action_space, list 2 the
\* root's untried_actions, a copy of it
RunMctsInit(r) ==
    LET action_space == ActionSpace(r.demand_data)
        root_state   == InventoryState(r.current_stock, 0, 0)
    IN  IF ~DemandNumeric(r.request.dataset) THEN Raise(r, "TypeError")
        ELSE
        [r EXCEPT !.pc = "loop",
                  !.heap = <<action_space, action_space>>,
                  !.action_space = 1,
                  !.max_penalty = MaxPenalty(r.request.stockout_cost,
                                      r.demand_data, r.request.horizon),
                  !.nodes = <<MCTSNode(root_state, None, 0, 2)>>,
                  !.explored_states = 0,
                  !.i = 0]

\* ------------------------------------------------------------------------
\* The random source.  A draw is what np.random.choice returns an element
\* for: an index into the array it is given.
\* ------------------------------------------------------------------------
\* MCTSOptimizerAgent._sample_demand, in model units
sample_demand(demand_history, draw) ==
    Qty(demand_history[draw], demand_history)

DemandDraws(r) == 1..Len(r.demand_data)

ActionDraws(r) == 1..Len(r.heap[r.action_space])

\* ------------------------------------------------------------------------
\* One iteration of the loop of _run_mcts (lines 262-296), step by step
\* ------------------------------------------------------------------------
Root == 1

\* line 262-264: the loop head
LoopHead(r) ==
    IF r.i < r.request.iterations
    THEN [r EXCEPT !.pc = "select", !.node = Root,
                   !.state = InventoryState(r.current_stock, 0, 0)]
    ELSE [r EXCEPT !.pc = "extract"]

\* the condition of the selection loop, line 267
SelectCond(r) ==
    /\ is_fully_expanded(r.heap, r.nodes[r.node])
    /\ ~is_terminal(r.state, r.request.horizon)

\* does the next selection step sample a demand?
SelectDescends(r) == SelectCond(r) /\ r.nodes[r.node].children # <<>>

\* the selection without line 271, the transition of the simulated state
SelectStepKeepsState(r, draw) ==
    IF ~SelectDescends(r) THEN [r EXCEPT !.pc = "expand"]
    ELSE LET bc == best_child(r.nodes, r.node, r.max_penalty)
         IN  IF bc.exc # "none" THEN Raise(r, bc.exc)
             ELSE [r EXCEPT !.node = bc.node]

\* lines 267-271: one test of the selection loop and, if it holds, one pass
SelectStep(r, draw) ==
    IF ~SelectDescends(r) THEN [r EXCEPT !.pc = "expand"]
    ELSE LET bc == best_child(r.nodes, r.node, r.max_penalty)
             demand == sample_demand(r.demand_data, draw)
         IN  IF bc.exc # "none" THEN Raise(r, bc.exc)
             ELSE [r EXCEPT
                     !.node = bc.node,
                     !.state = transition(r.state, r.nodes[bc.node].action,
                                   demand, r.request.holding_cost,
                                   r.request.stockout_cost).ret]

\* the condition of the expansion, line 274
ExpandCond(r) ==
    /\ ~is_terminal(r.state, r.request.horizon)
    /\ ~is_fully_expanded(r.heap, r.nodes[r.node])

ExpandFromNodeState(r, draw) ==
    IF ExpandCond(r)
    THEN LET action == r.heap[r.nodes[r.node].untried_actions][1]
             demand == sample_demand(r.demand_data, draw)
             new_state == transition(r.state, action, demand,
                              r.request.holding_cost,
                              r.request.stockout_cost).ret
             t == add_child(r, r.node, action, new_state, r.action_space)
         IN  [r EXCEPT !.pc = "simulate",
                       !.nodes = t.nodes, !.heap = t.heap,
                       !.node = Len(t.nodes),
                       !.state = new_state,
                       !.explored_states = @ + 1,
                       !.sim_state = new_state, !.sim_numpy = FALSE]
    ELSE [r EXCEPT !.pc = "simulate", !.sim_state = r.nodes[r.node].state,
                   !.sim_numpy = FALSE]

ExpandKeepsNode(r, draw) ==
    IF ExpandCond(r)
    THEN LET action == r.heap[r.nodes[r.node].untried_actions][1]
             demand == sample_demand(r.demand_data, draw)
             new_state == transition(r.state, action, demand,
                              r.request.holding_cost,
                              r.request.stockout_cost).ret
             t == add_child(r, r.node, action, new_state, r.action_space)
         IN  [r EXCEPT !.pc = "simulate",
                       !.nodes = t.nodes, !.heap = t.heap,
                       !.state = new_state,
                       !.explored_states = @ + 1,
                       !.sim_state = new_state, !.sim_numpy = FALSE]
    ELSE [r EXCEPT !.pc = "simulate", !.sim_state = r.state,
                   !.sim_numpy = FALSE]

\* the expansion without line 280, the count of explored states
ExpandUncounted(r, draw) ==
    IF ExpandCond(r)
    THEN LET action == r.heap[r.nodes[r.node].untried_actions][1]
             demand == sample_demand(r.demand_data, draw)
             new_state == transition(r.state, action, demand,
                              r.request.holding_cost,
                              r.request.stockout_cost).ret
             t == add_child(r, r.node, action, new_state, r.action_space)
         IN  [r EXCEPT !.pc = "simulate",
                       !.nodes = t.nodes, !.heap = t.heap,
                       !.node = Len(t.nodes),
                       !.state = new_state,
                       !.sim_state = new_state, !.sim_numpy = FALSE]
    ELSE [r EXCEPT !.pc = "simulate", !.sim_state = r.state,
                   !.sim_numpy = FALSE]

\* lines 274-283: the expansion, if any, and the copy the rollout starts from
Expand(r, draw) ==
    IF ExpandCond(r)
    THEN LET action == r.heap[r.nodes[r.node].untried_actions][1]
             demand == sample_demand(r.demand_data, draw)
             new_state == transition(r.state, action, demand,
                              r.request.holding_cost,
                              r.request.stockout_cost).ret
             t == add_child(r, r.node, action, new_state, r.action_space)
         IN  [r EXCEPT !.pc = "simulate",
                       !.nodes = t.nodes, !.heap = t.heap,
                       !.node = Len(t.nodes),
                       !.state = new_state,
                       !.explored_states = @ + 1,
                       !.sim_state = new_state, !.sim_numpy = FALSE]
    ELSE [r EXCEPT !.pc = "simulate", !.sim_state = r.state,
                   !.sim_numpy = FALSE]

NormalizedRewardNoClamp(total_cost, max_penalty) ==
    max_penalty - total_cost

\* line 292, as a numerator over max_penalty:
\* 1.0 - min(total_cost, max_penalty) / max_penalty
NormalizedReward(total_cost, max_penalty) ==
    max_penalty - Min(total_cost, max_penalty)

\* lines 29-44 with an order_qty drawn by np.random.choice (line 285), an
\* np.float64: ending_stock or stockout, and with it the total_cost, is an
\* np.float64 unless both are the int 0 of max(0, .)
StepIsNumpy(self, order_qty, demand) ==
    self.current_stock + order_qty # demand

\* line 292: min returns the np.float64 cost of the rollout unless
\* max_penalty is smaller
RewardIsNumpy(r) == r.sim_numpy /\ r.sim_state.total_cost <= r.max_penalty

SimRuns(r) == ~is_terminal(r.sim_state, r.request.horizon)

\* lines 284-292: one test of the rollout loop and, if it holds, one pass;
\* when it fails, the reward of the rollout
SimStep(r, adraw, draw) ==
    IF SimRuns(r)
    THEN LET action == r.heap[r.action_space][adraw]
             demand == sample_demand(r.demand_data, draw)
         IN  [r EXCEPT
                 !.sim_state =
                     transition(r.sim_state, action, demand,
                         r.request.holding_cost, r.request.stockout_cost).ret,
                 !.sim_numpy = @ \/ StepIsNumpy(r.sim_state, action, demand)]
    ELSE [r EXCEPT !.pc = "backprop",
                   !.normalized_reward =
                       NormalizedReward(r.sim_state.total_cost, r.max_penalty)]

BackpropStepStopsBelowRoot(r) ==
    IF r.node # None /\ r.nodes[r.node].parent # None
    THEN [r EXCEPT !.nodes[r.node] = update(@, r.normalized_reward),
                   !.node = r.nodes[r.node].parent]
    ELSE [r EXCEPT !.pc = "loop", !.i = @ + 1]

\* lines 294-296: one test of the backpropagation loop and, if it holds, one
\* pass; when it fails the iteration is over
BackpropStep(r) ==
    IF r.node # None
    THEN [r EXCEPT !.nodes[r.node] = update(@, r.normalized_reward),
                   !.numpy_rewards =
                       IF RewardIsNumpy(r) THEN @ \cup {r.node} ELSE @,
                   !.node = r.nodes[r.node].parent]
    ELSE [r EXCEPT !.pc = "loop", !.i = @ + 1]

\* ------------------------------------------------------------------------
\* Best-action extraction and result synthesis (_run_mcts, lines 298-321)
\* ------------------------------------------------------------------------
\* n^2 times the variance of the series (np.var, np.std squared)
VarNum(demand_history) ==
    LET n == Len(demand_history)
        sq == [k \in 1..n |-> demand_history[k] * demand_history[k]]
    IN  n * SumSeq(sq) - SumSeq(demand_history) * SumSeq(demand_history)

\* std_demand * 1.65 in model units, to two decimals of the square root
SafetyStock(demand_history) ==
    (1485 * ISqrt(VarNum(demand_history) * 10000)) \div 1000

\* line 303: max(root.children, key=lambda c: c.visits)
MostVisitedLast(nodes) ==
    LET kids == nodes[Root].children
    IN  LastMax(kids, [i \in 1..Len(kids) |-> nodes[kids[i]].visits])

BestAverage(nodes) ==
    LET c == CHOOSE c \in SetOf(nodes[Root].children) :
                 \A d \in SetOf(nodes[Root].children) :
                     nodes[d].total_reward * nodes[c].visits
                         <= nodes[c].total_reward * nodes[d].visits
    IN  c

MostVisited(nodes) ==
    LET kids == nodes[Root].children
    IN  FirstMax(kids, [i \in 1..Len(kids) |-> nodes[kids[i]].visits])

ExpectedCostOfRoot(nodes, best, max_penalty) ==
    Frac(nodes[Root].visits * max_penalty - nodes[Root].total_reward,
         nodes[Root].visits)

\* line 312: (1.0 - total_reward / visits) * max_penalty, as a fraction
ExpectedCost(nodes, best, max_penalty) ==
    Frac(nodes[best].visits * max_penalty - nodes[best].total_reward,
         nodes[best].visits)

SolutionTimed(r, best, elapsed) ==
    [reorder_point |-> 135 * SumSeq(r.demand_data),
     order_quantity |-> r.nodes[best].action,
     safety_stock |-> SafetyStock(r.demand_data),
     expected_cost |-> ExpectedCost(r.nodes, best, r.max_penalty),
     explored_states |-> r.explored_states + elapsed,
     computation_time_ms |-> elapsed]

\* lines 314-321: the result, elapsed being the wall-clock time of the call
Solution(r, best, elapsed) ==
    [reorder_point |-> 135 * SumSeq(r.demand_data),
     order_quantity |-> r.nodes[best].action,
     safety_stock |-> SafetyStock(r.demand_data),
     expected_cost |-> ExpectedCost(r.nodes, best, r.max_penalty),
     explored_states |-> r.explored_states,
     computation_time_ms |-> elapsed]

\* the return of _run_mcts to process, which goes on to line 147
ReturnSolution(r, solution) ==
    [Invoke(r, "_calculate_baseline_cost") EXCEPT
        !.pc = "baseline",
        !.optimal_solution = solution,
        !.bstate = InventoryState(r.current_stock, 0, 0),
        !.bday = 0]

\* lines 303-321: the root has children
ExtractFromChildren(r, elapsed) ==
    LET best == MostVisited(r.nodes)
    IN  IF r.nodes[best].visits = 0
        THEN Raise(r, "ZeroDivisionError")
        ELSE [ReturnSolution(r, Solution(r, best, elapsed)) EXCEPT
                 !.numpy_cost = best \in r.numpy_rewards]

ExtractBestNoGuard(r, elapsed) ==
    IF r.nodes[Root].children = <<>>
    THEN Raise(r, "ValueError")
    ELSE ExtractFromChildren(r, elapsed)

\* lines 298-321
ExtractBest(r, elapsed) ==
    IF r.nodes[Root].children = <<>>
    THEN ReturnSolution(r, NoSolution)
    ELSE ExtractFromChildren(r, elapsed)

\* ------------------------------------------------------------------------
\* _calculate_baseline_cost (lines 336-342), one pass of its loop per step
\* ------------------------------------------------------------------------
BaselineRunsOneMore(r) == r.bday <= r.request.horizon

BaselineRuns(r) == r.bday < r.request.horizon

BaselineOrder == 0

BaselineStepOrdering(r, draw) ==
    IF BaselineRuns(r)
    THEN LET demand == sample_demand(r.demand_data, draw)
             next == transition(r.bstate, demand, demand,
                         r.request.holding_cost,
                         r.request.stockout_cost).ret
         IN  [r EXCEPT !.bstate = next, !.bday = @ + 1,
                       !.bdemands = Append(@, demand),
                       !.bcosts = Append(@, next.total_cost
                                              - r.bstate.total_cost)]
    ELSE [Invoke(r, "_calculate_bullwhip_effect") EXCEPT
             !.pc = "bullwhip", !.baseline_cost = r.bstate.total_cost]

BaselineStep(r, draw) ==
    IF BaselineRuns(r)
    THEN LET demand == sample_demand(r.demand_data, draw)
             next == transition(r.bstate, BaselineOrder, demand,
                         r.request.holding_cost,
                         r.request.stockout_cost).ret
         IN  [r EXCEPT !.bstate = next, !.bday = @ + 1,
                       !.bdemands = Append(@, demand),
                       !.bcosts = Append(@, next.total_cost
                                              - r.bstate.total_cost)]
    ELSE [Invoke(r, "_calculate_bullwhip_effect") EXCEPT
             !.pc = "bullwhip", !.baseline_cost = r.bstate.total_cost]

\* ------------------------------------------------------------------------
\* _calculate_bullwhip_effect (lines 344-362).  Fractions have positive
\* denominators.
\* ------------------------------------------------------------------------
FracLeq(x, y) == x.num * y.den <= y.num * x.den

FracMin(x, y) == IF FracLeq(x, y) THEN x ELSE y

FracMax(x, y) == IF FracLeq(x, y) THEN y ELSE x

\* bullwhip_before = 2.4
BullwhipBefore == Frac(12, 5)

\* order_variance / demand_variance if demand_variance > 0 else 1.0, for an
\* order quantity q in model units: (q/unit)^2 * 0.5 / (VarNum / n^2)
BullwhipAfter(demand_data, q) ==
    IF VarNum(demand_data) > 0
    THEN Frac(q * q, 2 * 90 * 90 * VarNum(demand_data))
    ELSE Frac(1, 1)

\* ((bullwhip_before - bullwhip_after) / bullwhip_before) * 100
BullwhipImprovement(after) ==
    Frac(25 * (12 * after.den - 5 * after.num), 3 * after.den)

\* the metrics without min(bullwhip_after, bullwhip_before) and max(0, .)
calculate_bullwhip_effectUnclamped(demand_data, solution) ==
    LET after == BullwhipAfter(demand_data, solution.order_quantity)
    IN  [before |-> BullwhipBefore,
         after |-> after,
         improvement_percentage |-> BullwhipImprovement(after)]

calculate_bullwhip_effect(demand_data, solution) ==
    LET after == BullwhipAfter(demand_data, solution.order_quantity)
    IN  [before |-> BullwhipBefore,
         after |-> FracMin(after, BullwhipBefore),
         improvement_percentage |->
             FracMax(Frac(0, 1), BullwhipImprovement(after))]

\* process, lines 152-157
Bullwhip(r) ==
    [Invoke(r, "_get_interpretation") EXCEPT
        !.pc = "interpret",
        !.bullwhip_metrics =
            calculate_bullwhip_effect(r.demand_data, r.optimal_solution)]

\* ------------------------------------------------------------------------
\* _get_interpretation (lines 364-405) and the rest of process
\* ------------------------------------------------------------------------
\* lines 373-401: the summary and the prompt are built and generate_content
\* is awaited
Interpret(r) == [Invoke(r, "generate_content") EXCEPT !.pc = "await_llm"]

LLMOutcomes == {"text", "error"}

\* lines 402-405: the collaborator answered, or raised
LLMReply(r, outcome) ==
    [r EXCEPT !.pc = "format",
              !.interpretation = IF outcome = "text" THEN "llm_text"
                                 ELSE "templated_summary"]

\* lines 162-181
ResponseData(r) ==
    LET sol == r.optimal_solution
        ec  == sol.expected_cost
        saved == r.baseline_cost * ec.den - ec.num
    IN  [optimal_action |-> [reorder_point |-> sol.reorder_point,
                             order_quantity |-> sol.order_quantity,
                             safety_stock |-> sol.safety_stock],
         expected_savings |->
             [amount_inr |-> Frac(saved, ec.den),
              percentage |-> Frac(100 * saved, r.baseline_cost * ec.den)],
         bullwhip_reduction |-> r.bullwhip_metrics,
         simulation_stats |->
             [iterations |-> r.request.iterations,
              explored_states |-> sol.explored_states,
              computation_time_ms |-> sol.computation_time_ms,
              baseline_cost |-> r.baseline_cost,
              optimized_cost |-> ec],
         interpretation |-> r.interpretation]

\* lines 162-189: dividing a float by a baseline_cost of 0.0 raises;
\* dividing an np.float64 by it gives inf or nan (a fraction over 0 here)
FormatResponse(r) ==
    IF r.baseline_cost = 0 /\ ~r.numpy_cost
    THEN Raise(r, "ZeroDivisionError")
    ELSE [r EXCEPT !.pc = "done",
                   !.response = AgentResponse(TRUE, TRUE, ResponseData(r),
                                              "none")]

\* lines 191-197
HandleExceptionReraises(r) == [r EXCEPT !.pc = "done"]

HandleException(r) ==
    [r EXCEPT !.pc = "done",
              !.response = AgentResponse(FALSE, FALSE, NoData, r.exc)]

\* ------------------------------------------------------------------------
\* Requests
\* ------------------------------------------------------------------------
Column(name, numeric, values) ==
    [name |-> name, numeric |-> numeric, values |-> values]

Dates(n) == Column("date", FALSE, [k \in 1..n |-> k])

DfSales(hist) == <<Dates(Len(hist)), Column("sales", TRUE, hist)>>

DfSalesStock(hist, stock) ==
    <<Dates(Len(hist)), Column("sales", TRUE, hist),
      Column("current_stock", TRUE, [k \in 1..Len(hist) |-> stock])>>

DfPrice(hist) == <<Dates(Len(hist)), Column("price", TRUE, hist)>>

DfDates == <<Dates(2)>>

DfNaN == <<Dates(2), Column("daily_demand", TRUE, <<NaN, NaN>>)>>

Request(has_dataset, dataset, holding_cost, stockout_cost, horizon, iterations) ==
    [has_dataset |-> has_dataset, dataset |-> dataset,
     holding_cost |-> holding_cost, stockout_cost |-> stockout_cost,
     horizon |-> horizon, iterations |-> iterations]

\* requests whose search fills the root and then selects among its children
WideRequests ==
    {Request(TRUE, DfSalesStock(<<1, 3>>, 1), 1, 2, 1, n) :
        n \in {MaxIterWide}}

\* requests whose iterations have a rollout
DeepRequests ==
    {Request(TRUE, DfSales(<<2>>), 1, 2, 2, MaxIterDeep),
     Request(TRUE, DfSalesStock(<<1, 3>>, 0), 1, 2, 2, 1),
     Request(TRUE, DfSalesStock(<<1, 3>>, 0), 1, 2, 2, 0),
     Request(TRUE, DfSalesStock(<<10, 10, 10>>, 10), 1, 10, 3, 1),
     Request(TRUE, DfSalesStock(<<10, 10, 10>>, 10), 1, 10, 3, 0)}

\* requests with a zero among the cost rates, the demand or the horizon
ZeroRequests ==
    {Request(TRUE, DfSales(<<1, 3>>), 1, 0, 1, 2),
     Request(TRUE, DfSales(<<1, 3>>), 0, 2, 1, 2),
     Request(TRUE, DfSales(<<1, 3>>), 0, 0, 2, 1),
     Request(TRUE, DfPrice(<<0, 0>>), 1, 2, 1, 2),
     Request(TRUE, DfSales(<<1, 3>>), 1, 2, 0, 2),
     Request(TRUE, DfSales(<<1, 3>>), 1, 2, -1, 1)}

\* requests without usable demand data
BadRequests ==
    {Request(FALSE, <<>>, 1, 2, 1, 1),
     Request(TRUE, <<>>, 1, 2, 1, 1),
     Request(TRUE, DfDates, 1, 2, 1, 1),
     Request(TRUE, DfNaN, 1, 2, 1, 1)}

\* requests whose demand column holds text
TextRequests ==
    {Request(TRUE, <<Dates(2), Column("sales", FALSE, <<1, 3>>)>>,
             1, 2, 1, 1),
     Request(TRUE, <<Dates(2), Column("sales", FALSE, <<1, 3>>),
                     Column("current_stock", TRUE, <<1, 1>>)>>,
             1, 2, 1, 1)}

Requests ==
    WideRequests \cup DeepRequests \cup ZeroRequests \cup BadRequests
        \cup TextRequests

\* ------------------------------------------------------------------------
\* State
\* ------------------------------------------------------------------------
VARIABLES
    calls,    \* the calls of process, by call id
    active,   \* the call that holds the event loop, 0 if none
    rng,      \* the state of the global generator np.random of the process:
              \* how many values have been drawn from it
    probe     \* a chain of InventoryState.transition calls

vars == <<calls, active, rng, probe>>

Calls == {1, 2}

ProbeOf(self, holding_cost, stockout_cost) ==
    [applied |-> FALSE, pre |-> self, order_qty |-> 0, demand |-> 0,
     holding_cost |-> holding_cost, stockout_cost |-> stockout_cost,
     locals |-> TransitionLocals(self, 0, 0),
     self_after |-> self, cur |-> self]

NoProbe == ProbeOf(NoState, 0, 0)

Init ==
    /\ \E request \in Requests :
           calls = [c \in Calls |-> IF c = 1 THEN NewCall(request) ELSE Idle]
    /\ active = 0
    /\ rng = 0
    /\ probe = NoProbe

\* ------------------------------------------------------------------------
\* Actions: one per step of a call.  A call keeps the event loop from one
\* await that suspends to the next.
\* ------------------------------------------------------------------------
Suspended(r) == r.pc \in {"await_llm", "done"}

\* does the step run r is at draw a demand, an action?
DrawsDemand(r) ==
    \/ r.pc = "select" /\ SelectDescends(r)
    \/ r.pc = "expand" /\ ExpandCond(r)
    \/ r.pc = "simulate" /\ SimRuns(r)
    \/ r.pc = "baseline" /\ BaselineRuns(r)

DrawsAction(r) == r.pc = "simulate" /\ SimRuns(r)

\* np.random.choice (lines 284 and 325) reads and advances the generator:
\* the generator states that the step call r is at draws from, when the
\* generator is in state pos
Positions(r, pos) ==
    LET k == (IF DrawsAction(r) THEN 1 ELSE 0)
                 + (IF DrawsDemand(r) THEN 1 ELSE 0)
    IN  [j \in 1..k |-> pos + j - 1]

\* call r after a step that took it to new, with the draws of the step
Drew(r, new, pos) == [new EXCEPT !.drawn = @ \o Positions(r, pos)]

Step(c, new) ==
    /\ active \in {0, c}
    /\ calls' = [calls EXCEPT ![c] = Drew(calls[c], new, rng)]
    /\ rng' = rng + Len(Positions(calls[c], rng))
    /\ active' = IF Suspended(new) THEN 0 ELSE c
    /\ UNCHANGED probe

Start(c) ==
    /\ calls[c].pc = "start"
    /\ Step(c, ProcessStart(calls[c]))

MctsInit(c) ==
    /\ calls[c].pc = "mcts"
    /\ Step(c, RunMctsInit(calls[c]))

Loop(c) ==
    /\ calls[c].pc = "loop"
    /\ Step(c, LoopHead(calls[c]))

Select(c) ==
    /\ calls[c].pc = "select"
    /\ \E draw \in IF SelectDescends(calls[c]) THEN DemandDraws(calls[c])
                   ELSE {1} :
           Step(c, SelectStep(calls[c], draw))

Expansion(c) ==
    /\ calls[c].pc = "expand"
    /\ \E draw \in IF ExpandCond(calls[c]) THEN DemandDraws(calls[c])
                   ELSE {1} :
           Step(c, Expand(calls[c], draw))

Simulate(c) ==
    /\ calls[c].pc = "simulate"
    /\ \E adraw \in IF SimRuns(calls[c]) THEN ActionDraws(calls[c]) ELSE {1},
          draw \in IF SimRuns(calls[c]) THEN DemandDraws(calls[c]) ELSE {1} :
           Step(c, SimStep(calls[c], adraw, draw))

Backprop(c) ==
    /\ calls[c].pc = "backprop"
    /\ Step(c, BackpropStep(calls[c]))

Extract(c) ==
    /\ calls[c].pc = "extract"
    /\ \E elapsed \in IF calls[c].nodes[Root].children = <<>> THEN {0}
                      ELSE 0..MaxElapsedMs :
           Step(c, ExtractBest(calls[c], elapsed))

Baseline(c) ==
    /\ calls[c].pc = "baseline"
    /\ \E draw \in IF BaselineRuns(calls[c]) THEN DemandDraws(calls[c])
                   ELSE {1} :
           Step(c, BaselineStep(calls[c], draw))

BullwhipMetric(c) ==
    /\ calls[c].pc = "bullwhip"
    /\ Step(c, Bullwhip(calls[c]))

Interpretation(c) ==
    /\ calls[c].pc = "interpret"
    /\ Step(c, Interpret(calls[c]))

LLM(c) ==
    /\ calls[c].pc = "await_llm"
    /\ \E outcome \in LLMOutcomes : Step(c, LLMReply(calls[c], outcome))

Format(c) ==
    /\ calls[c].pc = "format"
    /\ Step(c, FormatResponse(calls[c]))

Except(c) ==
    /\ calls[c].pc = "except"
    /\ Step(c, HandleException(calls[c]))

Next ==
    \E c \in Calls :
        \/ Start(c)
        \/ MctsInit(c)
        \/ Loop(c)
        \/ Select(c)
        \/ Expansion(c)
        \/ Simulate(c)
        \/ Backprop(c)
        \/ Extract(c)
        \/ Baseline(c)
        \/ BullwhipMetric(c)
        \/ Interpretation(c)
        \/ LLM(c)
        \/ Format(c)
        \/ Except(c)

Spec == Init /\ [][Next]_vars

\* ------------------------------------------------------------------------
\* The transition probe: InventoryState.transition applied along chains of
\* order quantities and demands
\* ------------------------------------------------------------------------
InitProbe ==
    /\ calls = [c \in Calls |-> Idle]
    /\ active = 0
    /\ rng = 0
    /\ \E stock \in 0..MaxQty, holding_cost \in 0..MaxRate,
          stockout_cost \in 0..MaxRate :
           probe = ProbeOf(InventoryState(stock, 0, 0), holding_cost,
                           stockout_cost)

ProbeTransition ==
    /\ probe.cur.day < MaxDays
    /\ \E order_qty \in 0..MaxQty, demand \in 0..MaxQty :
           LET out == transition(probe.cur, order_qty, demand,
                          probe.holding_cost, probe.stockout_cost)
           IN  probe' = [probe EXCEPT
                   !.applied = TRUE,
                   !.pre = probe.cur,
                   !.order_qty = order_qty,
                   !.demand = demand,
                   !.locals = TransitionLocals(probe.cur, order_qty, demand),
                   !.self_after = out.self,
                   !.cur = out.ret]
    /\ UNCHANGED <<calls, active, rng>>

NextProbe == ProbeTransition

SpecProbe == InitProbe /\ [][NextProbe]_vars

\* ------------------------------------------------------------------------
\* Properties of InventoryState.transition
\* ------------------------------------------------------------------------
\* C1: for current_stock, order_qty, demand >= 0 a transition computes
\* ending_stock = max(0, current_stock + order_qty - demand) and
\* stockout = max(0, demand - current_stock - order_qty), and the two are
\* never both positive.
C1_EndingAndStockout ==
    probe.applied =>
        LET net == probe.pre.current_stock + probe.order_qty - probe.demand
        IN  /\ probe.locals.ending_stock = Max(0, net)
            /\ probe.locals.stockout = Max(0, -net)
            /\ ~(probe.locals.ending_stock > 0 /\ probe.locals.stockout > 0)
            /\ probe.cur.current_stock = Max(0, net)

C1_Witness ==
    /\ probe.applied
    /\ probe.pre.current_stock > 0
    /\ probe.order_qty > 0
    /\ probe.demand > probe.pre.current_stock + probe.order_qty
    /\ probe.locals.stockout > 0

\* C2: a transition returns a new state with current_stock = ending stock,
\* day = day + 1 and total_cost = total_cost + holding_cost * ending +
\* stockout_cost * stockout, and leaves its receiver unchanged; along a chain
\* of transitions the cost never decreases and the stock is never negative.
C2_TransitionResult ==
    probe.applied =>
        /\ probe.cur.current_stock = probe.locals.ending_stock
        /\ probe.cur.day = probe.pre.day + 1
        /\ probe.cur.total_cost =
               probe.pre.total_cost
                   + probe.holding_cost * probe.locals.ending_stock
                   + probe.stockout_cost * probe.locals.stockout
        /\ probe.self_after = probe.pre
        /\ probe.cur.total_cost >= probe.pre.total_cost
        /\ probe.cur.current_stock >= 0
        /\ probe.pre.current_stock >= 0

C2_Witness ==
    /\ probe.applied
    /\ probe.cur.day = MaxDays
    /\ probe.cur.total_cost > probe.pre.total_cost
    /\ probe.pre.total_cost > 0
    /\ probe.locals.ending_stock > 0

\* ------------------------------------------------------------------------
\* Properties of the search and of process
\* ------------------------------------------------------------------------
Invoked(r, name) == name \in SetOf(r.invoked)

\* _run_mcts has returned its result to process
SearchReturned(r) == Invoked(r, "_calculate_baseline_cost")

\* _calculate_baseline_cost has returned its result to process
BaselineReturned(r) == Invoked(r, "_calculate_bullwhip_effect")

NonNegative(request) ==
    /\ request.holding_cost >= 0
    /\ request.stockout_cost >= 0
    /\ request.horizon >= 0

\* C3: with non-negative cost rates, demand and horizon, the normalized
\* reward that is backpropagated lies in [0, 1], also when max_penalty
\* computes to 0 and is replaced by 1.0.  (The reward is kept as a numerator
\* over max_penalty.)
C3_RewardInUnitInterval ==
    \A c \in Calls :
        LET r == calls[c]
        IN  (r.pc = "backprop" /\ NonNegative(r.request)) =>
                /\ r.max_penalty > 0
                /\ 0 <= r.normalized_reward
                /\ r.normalized_reward <= r.max_penalty
                /\ \A n \in 1..Len(r.nodes) :
                       /\ 0 <= r.nodes[n].total_reward
                       /\ r.nodes[n].total_reward
                              <= r.nodes[n].visits * r.max_penalty

C3_Witness ==
    \E c \in Calls :
        LET r == calls[c]
        IN  /\ r.pc = "backprop"
            /\ NonNegative(r.request)
            /\ MaxPenaltyNoGuard(r.request.stockout_cost, r.demand_data,
                                 r.request.horizon) = 0
            /\ r.max_penalty = Unit(r.demand_data)
            /\ r.sim_state.total_cost > r.max_penalty
            /\ r.normalized_reward = 0

ZeroSolution(sol) ==
    /\ sol.reorder_point = 0
    /\ sol.order_quantity = 0
    /\ sol.safety_stock = 0
    /\ sol.expected_cost.num = 0
    /\ sol.explored_states = 0

\* C4: when the root has no children at the end of the search (iterations
\* = 0, or horizon <= 0) _run_mcts returns the result whose reorder_point,
\* order_quantity, safety_stock, expected_cost and explored_states are 0,
\* and it does not raise.
C4_DegenerateResult ==
    \A c \in Calls :
        LET r == calls[c]
            childless == r.nodes[Root].children = <<>>
        IN  Invoked(r, "_run_mcts") /\ r.pc # "mcts" /\ r.nodes # <<>> =>
                /\ (r.request.iterations <= 0 \/ r.request.horizon <= 0)
                       => childless
                /\ (childless /\ ~SearchReturned(r)) => r.pc # "except"
                /\ (childless /\ SearchReturned(r))
                       => ZeroSolution(r.optimal_solution)

C4_Witness ==
    \E c \in Calls :
        LET r == calls[c]
        IN  /\ SearchReturned(r)
            /\ r.request.iterations > 0
            /\ r.request.horizon <= 0
            /\ r.nodes[Root].visits = r.request.iterations
            /\ r.nodes[Root].children = <<>>
            /\ ZeroSolution(r.optimal_solution)

RootChildren(r) == SetOf(r.nodes[Root].children)

\* the children of the root whose action is the order_quantity returned
Chosen(r) ==
    {k \in RootChildren(r) :
        r.nodes[k].action = r.optimal_solution.order_quantity}

\* average reward of node a is less than that of node b
AvgLess(r, a, b) ==
    r.nodes[a].total_reward * r.nodes[b].visits
        < r.nodes[b].total_reward * r.nodes[a].visits

\* C5: the order_quantity returned is the action of a child of the root
\* whose visit count is maximal among the root's children (not of the child
\* with the highest average reward); a single child is the one returned.
C5_MostVisitedChild ==
    \A c \in Calls :
        LET r == calls[c]
        IN  (SearchReturned(r) /\ r.nodes[Root].children # <<>>) =>
                /\ \E k \in Chosen(r) :
                       \A j \in RootChildren(r) :
                           r.nodes[j].visits <= r.nodes[k].visits
                /\ Len(r.nodes[Root].children) = 1 =>
                       Chosen(r) = {r.nodes[Root].children[1]}

C5_Witness ==
    \E c \in Calls :
        LET r == calls[c]
        IN  /\ SearchReturned(r)
            /\ \E k \in Chosen(r), j \in RootChildren(r) :
                   /\ r.nodes[j].visits < r.nodes[k].visits
                   /\ AvgLess(r, k, j)

\* C6: when the root has a child, expected_cost =
\* (1 - total_reward / visits of the best child) * max_penalty, and it lies
\* in [0, max_penalty]; with visits = 1 it is max_penalty minus the reward
\* numerator (0.2 * max_penalty for a reward of 0.8).
C6_ExpectedCost ==
    \A c \in Calls :
        LET r  == calls[c]
            ec == r.optimal_solution.expected_cost
        IN  (SearchReturned(r) /\ r.nodes[Root].children # <<>>) =>
                /\ ec.den > 0
                /\ \E k \in Chosen(r) :
                       /\ r.nodes[k].visits > 0
                       /\ ec.num * r.nodes[k].visits =
                              (r.nodes[k].visits * r.max_penalty
                                  - r.nodes[k].total_reward) * ec.den
                       /\ r.nodes[k].visits = 1 =>
                              ec.num = (r.max_penalty
                                          - r.nodes[k].total_reward) * ec.den
                /\ 0 <= ec.num
                /\ ec.num <= r.max_penalty * ec.den

C6_Witness ==
    \E c \in Calls :
        LET r  == calls[c]
            ec == r.optimal_solution.expected_cost
        IN  /\ SearchReturned(r)
            /\ \E k \in Chosen(r) :
                   /\ r.nodes[k].visits >= 2
                   /\ r.nodes[Root].total_reward * r.nodes[k].visits
                          # r.nodes[k].total_reward * r.nodes[Root].visits
            /\ 0 < ec.num
            /\ ec.num < r.max_penalty * ec.den

\* ------------------------------------------------------------------------
\* Properties of the baseline evaluator
\* ------------------------------------------------------------------------
AllPositive(seq) == \A k \in 1..Len(seq) : seq[k] > 0

\* C8: for current_stock = 0 and a sampled demand path of positive demands,
\* _calculate_baseline_cost returns stockout_cost * (sum of the demands of
\* the path): no holding cost accrues on any day.
C8_BaselineFromEmptyStock ==
    \A c \in Calls :
        LET r == calls[c]
        IN  (BaselineReturned(r) /\ r.current_stock = 0
                 /\ AllPositive(r.bdemands)) =>
                /\ r.baseline_cost
                       = r.request.stockout_cost * SumSeq(r.bdemands)
                /\ \A k \in 1..Len(r.bcosts) :
                       r.bcosts[k] = r.request.stockout_cost * r.bdemands[k]

C8_Witness ==
    \E c \in Calls :
        LET r == calls[c]
        IN  /\ BaselineReturned(r)
            /\ r.current_stock = 0
            /\ r.request.holding_cost > 0
            /\ Len(r.bdemands) = 2
            /\ r.bdemands[1] # r.bdemands[2]
            /\ AllPositive(r.bdemands)
            /\ r.baseline_cost > 0

RECURSIVE NeverReorder(_, _, _, _)
\* the state after the demands of a path, one a day, with no order
NeverReorder(state, demands, holding_cost, stockout_cost) ==
    IF demands = <<>> THEN state
    ELSE NeverReorder(
             InventoryState(
                 Max(0, state.current_stock - Head(demands)),
                 state.day + 1,
                 state.total_cost
                     + holding_cost * Max(0, state.current_stock
                                                 - Head(demands))
                     + stockout_cost * Max(0, Head(demands)
                                                  - state.current_stock)),
             Tail(demands), holding_cost, stockout_cost)

\* the request of the scenario: current_stock = 10, demand_history =
\* [10, 10, 10], holding_cost = 1, stockout_cost = 10, horizon = 3
IsScenario(r) ==
    /\ r.demand_data = <<10, 10, 10>>
    /\ r.current_stock = Qty(10, r.demand_data)
    /\ r.request.holding_cost = 1
    /\ r.request.stockout_cost = 10
    /\ r.request.horizon = 3

\* C9: the baseline evaluator performs exactly `horizon` transitions, with
\* order quantity 0 on every day, and returns the final cumulative cost; in
\* the scenario the day costs are 0, 100, 100 and the baseline cost is 200.
C9_BaselineNeverReorders ==
    \A c \in Calls :
        LET r == calls[c]
        IN  BaselineReturned(r) =>
                /\ Len(r.bdemands) = Max(0, r.request.horizon)
                /\ r.bstate.day = Len(r.bdemands)
                /\ r.bstate = NeverReorder(
                                  InventoryState(r.current_stock, 0, 0),
                                  r.bdemands, r.request.holding_cost,
                                  r.request.stockout_cost)
                /\ r.baseline_cost = r.bstate.total_cost
                /\ r.baseline_cost = SumSeq(r.bcosts)
                /\ IsScenario(r) =>
                       /\ r.bcosts = <<0, Qty(100, r.demand_data),
                                       Qty(100, r.demand_data)>>
                       /\ r.baseline_cost = Qty(200, r.demand_data)

C9_Witness ==
    \E c \in Calls :
        LET r == calls[c]
        IN  /\ BaselineReturned(r)
            /\ IsScenario(r)
            /\ r.bstate.day = 3
            /\ r.baseline_cost = Qty(200, r.demand_data)

\* ------------------------------------------------------------------------
\* Properties of process
\* ------------------------------------------------------------------------
\* C10: when the request has no dataset, or no demand series can be
\* extracted from it, or the extracted series is empty, process returns a
\* failure response (success = False with an error message) at once: the
\* search, the baseline evaluation and the explanatory-text call are never
\* started, and nothing is run twice.
C10_NoUsableDemandFails ==
    \A c \in Calls :
        LET r == calls[c]
        IN  r.request \in BadRequests =>
                /\ r.pc \in {"start", "done"}
                /\ r.exc = "none"
                /\ r.nodes = <<>>
                /\ r.bdemands = <<>>
                /\ r.invoked \in {<<>>, <<"_extract_demand">>}
                /\ r.pc = "done" =>
                       /\ r.response.returned
                       /\ ~r.response.success
                       /\ ~r.response.has_data
                       /\ r.response.error
                              \in {"No dataset provided for optimization",
                                   "Could not extract demand data from dataset"}
                       /\ r.request.has_dataset =>
                              r.invoked = <<"_extract_demand">>

C10_Witness ==
    \E c \in Calls :
        LET r == calls[c]
        IN  /\ r.request \in BadRequests
            /\ r.request.has_dataset
            /\ r.request.dataset # <<>>
            /\ \E k \in 1..Len(r.request.dataset) :
                   r.request.dataset[k].numeric
            /\ r.pc = "done"
            /\ ~r.response.success
            /\ r.response.error = "Could not extract demand data from dataset"

\* ------------------------------------------------------------------------
\* Two runs from the same seed.  Both runs get the same request and, at
\* every step, the same draws of the random source; the wall clock and the
\* explanatory-text collaborator are not part of the random source and
\* answer each run on their own.  Each run is a process of its own, whose
\* generator starts from the seed: the draws of a run are numbered from 0.
\* ------------------------------------------------------------------------
SeededRequests == DeepRequests \cup ZeroRequests \cup BadRequests

InitSeeded ==
    /\ \E request \in SeededRequests :
           calls = [c \in Calls |-> NewCall(request)]
    /\ active = 0
    /\ rng = 0
    /\ probe = NoProbe

\* the step of process that run r is at, given what its environment returns
StepOf(r, draw, adraw, elapsed, outcome) ==
    CASE r.pc = "start"     -> ProcessStart(r)
      [] r.pc = "mcts"      -> RunMctsInit(r)
      [] r.pc = "loop"      -> LoopHead(r)
      [] r.pc = "select"    -> SelectStep(r, draw)
      [] r.pc = "expand"    -> Expand(r, draw)
      [] r.pc = "simulate"  -> SimStep(r, adraw, draw)
      [] r.pc = "backprop"  -> BackpropStep(r)
      [] r.pc = "extract"   -> ExtractBest(r, elapsed)
      [] r.pc = "baseline"  -> BaselineStep(r, draw)
      [] r.pc = "bullwhip"  -> Bullwhip(r)
      [] r.pc = "interpret" -> Interpret(r)
      [] r.pc = "await_llm" -> LLMReply(r, outcome)
      [] r.pc = "format"    -> FormatResponse(r)
      [] r.pc = "except"    -> HandleException(r)
      [] OTHER              -> r

ReadsClock(r) == r.pc = "extract" /\ r.nodes[Root].children # <<>>

Lockstep ==
    /\ \E c \in Calls : calls[c].pc # "done"
    /\ \E draw \in IF \E c \in Calls : DrawsDemand(calls[c])
                   THEN DemandDraws(calls[1]) ELSE {1},
          adraw \in IF \E c \in Calls : DrawsAction(calls[c])
                    THEN ActionDraws(calls[1]) ELSE {1},
          elapsed \in [Calls -> 0..MaxElapsedMs],
          outcome \in [Calls -> LLMOutcomes] :
           /\ \A c \in Calls : ReadsClock(calls[c]) \/ elapsed[c] = 0
           /\ \A c \in Calls : calls[c].pc = "await_llm" \/ outcome[c] = "text"
           /\ calls' = [c \in Calls |->
                           Drew(calls[c],
                                StepOf(calls[c], draw, adraw, elapsed[c],
                                       outcome[c]),
                                Len(calls[c].drawn))]
    /\ UNCHANGED <<active, rng, probe>>

NextSeeded == Lockstep

SpecSeeded == InitSeeded /\ [][NextSeeded]_vars

BothReturned == \A c \in Calls : calls[c].response.returned

\* the response without the time the search took and without the text of
\* the collaborator
Untimed(response) ==
    [response EXCEPT !.data.simulation_stats.computation_time_ms = 0,
                     !.data.interpretation = "none"]

\* the response without the text of the collaborator
Numeric(response) == [response EXCEPT !.data.interpretation = "none"]

LLMFailed(r) == r.interpretation = "templated_summary"

\* C11, as claimed: when the explanatory-text call fails with an error after
\* the search has completed, process still returns success = True with the
\* numeric result (optimal_action, expected_savings, bullwhip_reduction,
\* simulation_stats) and the templated summary as interpretation.
C11_AsClaimed ==
    \A c \in Calls :
        LET r == calls[c]
        IN  (r.response.returned /\ LLMFailed(r)) =>
                /\ r.response.success
                /\ r.response.has_data
                /\ r.response.data.interpretation = "templated_summary"
                /\ r.response.data.optimal_action.order_quantity
                       = r.optimal_solution.order_quantity
                /\ r.response.data.bullwhip_reduction = r.bullwhip_metrics
                /\ r.response.data.simulation_stats.explored_states
                       = r.optimal_solution.explored_states
                /\ r.response.data.expected_savings.amount_inr
                       = ResponseData(r).expected_savings.amount_inr

\* ------------------------------------------------------------------------
\* One call and the time it waits for the collaborator.  generate_content
\* (api_clients.py lines 96-134) stores settings.API_TIMEOUT in self.timeout
\* and never reads it, and _get_interpretation awaits it without a bound:
\* while the collaborator is silent the call stays suspended.
\* ------------------------------------------------------------------------
API_TIMEOUT == 60

MaxWait == 120

InitTimed ==
    /\ \E request \in SeededRequests :
           calls = [c \in Calls |-> IF c = 1 THEN NewCall(request) ELSE Idle]
    /\ active = 0
    /\ rng = 0
    /\ probe = NoProbe

\* another timeout period passes while call c awaits generate_content
Wait(c) ==
    /\ calls[c].pc = "await_llm"
    /\ calls[c].waited + API_TIMEOUT <= MaxWait
    /\ calls' = [calls EXCEPT ![c].waited = @ + API_TIMEOUT]
    /\ UNCHANGED <<active, rng, probe>>

NextTimed == Next \/ \E c \in Calls : Wait(c)

SpecTimed == InitTimed /\ [][NextTimed]_vars

\* C12, as claimed: the explanatory-text call is bounded in time: a call
\* never waits for the collaborator longer than the configured timeout, it
\* returns with the fallback interpretation instead.
C12_AsClaimed ==
    \A c \in Calls :
        calls[c].pc = "await_llm" => calls[c].waited <= API_TIMEOUT

\* ------------------------------------------------------------------------
\* Two concurrent calls of process in one event loop.  _run_mcts and
\* _calculate_baseline_cost hold no await that suspends, so a call runs from
\* its start to the await of generate_content in one piece; the other call
\* runs while it is suspended.  Both draw from the generator np.random of
\* the process (lines 284 and 325).
\* ------------------------------------------------------------------------
ConcRequests ==
    {Request(TRUE, DfSalesStock(<<1, 3>>, 1), 1, 2, 1, MaxIterDeep),
     Request(TRUE, DfSales(<<2>>), 1, 2, 2, 1)}

InitConc ==
    /\ \E request \in [Calls -> ConcRequests] :
           calls = [c \in Calls |-> NewCall(request[c])]
    /\ active = 0
    /\ rng = 0
    /\ probe = NoProbe

SpecConc == InitConc /\ [][Next]_vars

\* the generator states a call draws from when no other call runs in the
\* process: the first n states from the seed
AloneDraws(n) == [j \in 1..n |-> j - 1]

\* C13, as claimed: two concurrent calls share no mutable state: each call
\* builds its own tree, and the random draws of one call are the ones it
\* gets when the other call is absent.
C13_AsClaimed ==
    \A c \in Calls : calls[c].drawn = AloneDraws(Len(calls[c].drawn))

\* ------------------------------------------------------------------------
\* Searches that grow a tree below the children of the root
\* ------------------------------------------------------------------------
MaxIterTree == 7

\* a history of mean 1/30, for which np.linspace(0.1, 0.1, 10) makes the
\* action space [0.0, 0.1]
SparseHistory == [k \in 1..30 |-> IF k = 1 THEN 1 ELSE 0]

TreeRequests ==
    {Request(TRUE, DfSales(SparseHistory), 0, 0, 2, MaxIterTree),
     Request(TRUE, DfSalesStock(<<2>>, 1), 1, 2, 1, MaxIterWide),
     Request(TRUE, DfSales(<<2>>), 1, 2, 2, MaxIterDeep)}

InitTree ==
    /\ \E request \in TreeRequests :
           calls = [c \in Calls |-> IF c = 1 THEN NewCall(request) ELSE Idle]
    /\ active = 0
    /\ rng = 0
    /\ probe = NoProbe

SpecTree == InitTree /\ [][Next]_vars

\* the nodes of the tree of call r
Nodes(r) == 1..Len(r.nodes)

Children(r, n) == SetOf(r.nodes[n].children)

\* the search of call r is between two steps of its loop
Searching(r) ==
    r.pc \in {"loop", "select", "expand", "simulate", "backprop", "extract"}

\* C15: whenever best_child evaluates UCB1 during selection, the parent and
\* every child it evaluates have visits >= 1, so the search raises no
\* division by zero and no logarithm of 0: every child has been
\* backpropagated into by the time an iteration selects.
C15_UCB1Defined ==
    \A c \in Calls :
        LET r == calls[c]
        IN  /\ (r.pc = "select" /\ SelectDescends(r)) =>
                   /\ r.nodes[r.node].visits >= 1
                   /\ \A k \in Children(r, r.node) : r.nodes[k].visits >= 1
                   /\ best_child(r.nodes, r.node, r.max_penalty).exc = "none"
            /\ r.pc \in {"loop", "select", "expand"} =>
                   \A n \in Nodes(r) \ {Root} : r.nodes[n].visits >= 1
            /\ r.pc = "except" => SearchReturned(r)

\* selection evaluates UCB1 among the children of a child of the root
C15_Witness ==
    \E c \in Calls :
        LET r == calls[c]
        IN  /\ r.pc = "select"
            /\ SelectDescends(r)
            /\ r.node # Root
            /\ Len(r.nodes[r.node].children) > 1

\* the untried actions of node n, and the actions of its children
Untried(r, n) == SetOf(r.heap[r.nodes[n].untried_actions])

ChildActions(r, n) == {r.nodes[k].action : k \in Children(r, n)}

\* C16: for every node of the tree the untried actions and the actions of
\* its children are disjoint and together make up the action space, no two
\* children of a node have the same action, and a node is fully expanded
\* exactly when its untried set is empty.
C16_UntriedPartition ==
    \A c \in Calls :
        LET r == calls[c]
        IN  \A n \in Nodes(r) :
                /\ Untried(r, n) \cap ChildActions(r, n) = {}
                /\ Untried(r, n) \cup ChildActions(r, n)
                       = SetOf(r.heap[r.action_space])
                /\ Cardinality(ChildActions(r, n))
                       = Len(r.nodes[n].children)
                /\ is_fully_expanded(r.heap, r.nodes[n])
                       <=> Untried(r, n) = {}
                /\ is_fully_expanded(r.heap, r.nodes[n])
                       <=> ChildActions(r, n) = SetOf(r.heap[r.action_space])

\* a tree with a fully expanded root, a partly expanded child and a child
\* without children
C16_Witness ==
    \E c \in Calls :
        LET r == calls[c]
        IN  /\ Searching(r)
            /\ is_fully_expanded(r.heap, r.nodes[Root])
            /\ \E n \in Nodes(r) \ {Root} :
                   /\ Untried(r, n) # {}
                   /\ ChildActions(r, n) # {}
            /\ \E n \in Nodes(r) \ {Root} : ChildActions(r, n) = {}

\* call r is about to expand its node
Expanding(r) == r.pc = "expand" /\ ExpandCond(r)

\* the frame of one expansion of call c at node n: only the untried list of
\* n changes, by the action of the new child, and the new child owns a list
\* that no other node and not the action space refers to
ExpansionFrame(c) ==
    LET r     == calls[c]
        n     == r.node
        after == calls'[c]
        child == Len(after.nodes)
        mine  == after.nodes[child].untried_actions
    IN  /\ Len(after.nodes) = Len(r.nodes) + 1
        /\ after.nodes[child].parent = n
        /\ after.heap[r.nodes[n].untried_actions]
               = Remove(r.heap[r.nodes[n].untried_actions],
                        after.nodes[child].action)
        /\ Len(after.heap[r.nodes[n].untried_actions])
               = Len(r.heap[r.nodes[n].untried_actions]) - 1
        /\ \A m \in Nodes(r) :
               /\ after.nodes[m].untried_actions = r.nodes[m].untried_actions
               /\ m # n => after.heap[r.nodes[m].untried_actions]
                               = r.heap[r.nodes[m].untried_actions]
               /\ after.nodes[m].untried_actions # mine
        /\ after.action_space = r.action_space
        /\ after.heap[after.action_space] = r.heap[r.action_space]
        /\ mine # after.action_space
        /\ after.heap[mine] = r.heap[r.action_space]

\* C17: an expansion at node n removes exactly one action from the untried
\* set of n and leaves the untried set of every other node and the shared
\* action space unchanged; the new child starts with an untried set of its
\* own, a list no other node shares.
C17_ExpansionFrame ==
    [][\A c \in Calls :
           (Expanding(calls[c]) /\ calls'[c] # calls[c]) => ExpansionFrame(c)
      ]_vars

\* an expansion under a child of the root, whose own untried set and whose
\* siblings' untried sets are not empty
C17_Witness ==
    \E c \in Calls :
        LET r == calls[c]
            n == r.nodes[r.node].parent
        IN  /\ r.pc = "simulate"
            /\ r.nodes[r.node].visits = 0
            /\ n \notin {None, Root}
            /\ Untried(r, n) # {}
            /\ Untried(r, r.node) = SetOf(r.heap[r.action_space])
            /\ \E m \in Children(r, Root) \ {n} : Untried(r, m) # {}

\* ------------------------------------------------------------------------
\* The statistics of the nodes
\* ------------------------------------------------------------------------
\* 0 <= total_reward / max_penalty <= visits, total_reward being kept as a
\* numerator over max_penalty
RewardWithinVisits(node, max_penalty) ==
    IF max_penalty > 0
    THEN /\ 0 <= node.total_reward
         /\ node.total_reward <= node.visits * max_penalty
    ELSE /\ max_penalty < 0
         /\ node.total_reward <= 0
         /\ node.visits * max_penalty <= node.total_reward

\* C18: with non-negative cost rates every node of the tree has visits >= 0
\* and 0 <= accumulated reward <= visits, after any number of iterations
\* and between any two steps of one.
C18_RewardWithinVisits ==
    \A c \in Calls :
        LET r == calls[c]
        IN  (r.request.holding_cost >= 0 /\ r.request.stockout_cost >= 0) =>
                \A n \in Nodes(r) :
                    /\ r.nodes[n].visits >= 0
                    /\ RewardWithinVisits(r.nodes[n], r.max_penalty)

\* a node visited several times whose accumulated reward is strictly
\* between 0 and its visits, below a root with more visits
C18_Witness ==
    \E c \in Calls :
        LET r == calls[c]
        IN  /\ r.pc = "loop"
            /\ r.max_penalty > 0
            /\ \E n \in Nodes(r) :
                   /\ r.nodes[n].visits > 1
                   /\ 0 < r.nodes[n].total_reward
                   /\ r.nodes[n].total_reward
                          < r.nodes[n].visits * r.max_penalty
                   /\ n # Root
                   /\ r.nodes[n].visits < r.nodes[Root].visits

\* the visits and the accumulated reward of the nodes of call r
Stats(r) ==
    [n \in Nodes(r) |-> [visits |-> r.nodes[n].visits,
                         total_reward |-> r.nodes[n].total_reward]]

\* the frame of one step of call c, as far as the statistics go
BackpropFrame(c) ==
    LET r     == calls[c]
        after == calls'[c]
        kept  == [n \in Nodes(r) |-> Stats(after)[n]]
    IN  IF r.pc = "backprop" /\ r.node # None
        THEN /\ after.pc = "backprop"
             /\ after.node = r.nodes[r.node].parent
             /\ after.normalized_reward = r.normalized_reward
             /\ kept = [Stats(r) EXCEPT
                           ![r.node].visits = @ + 1,
                           ![r.node].total_reward = @ + r.normalized_reward]
        ELSE IF r.pc = "backprop"
        THEN /\ after.pc = "loop"
             /\ after.i = r.i + 1
             /\ after.nodes = r.nodes
             /\ after.nodes[Root].visits = after.i
        ELSE /\ Len(after.nodes) >= Len(r.nodes)
             /\ kept = Stats(r)
             /\ after.pc = "backprop" => after.node = r.node

\* C19: the backpropagation of an iteration walks from the node reached by
\* selection and expansion up the parent chain to the root inclusive; at
\* each node of the walk it adds 1 to visits and the reward of the iteration
\* to the accumulated reward, no step changes the statistics of another
\* node, and after k completed iterations the root has visits = k.
C19_BackpropFrame ==
    [][\A c \in Calls :
           (Searching(calls[c]) /\ calls'[c] # calls[c]) => BackpropFrame(c)
      ]_vars

\* two iterations or more are over and one of them walked up from a
\* grandchild of the root
C19_Witness ==
    \E c \in Calls :
        LET r == calls[c]
        IN  /\ r.pc = "loop"
            /\ r.i >= 2
            /\ r.nodes[Root].visits = r.i
            /\ \E n \in Nodes(r) :
                   /\ r.nodes[n].parent \notin {None, Root}
                   /\ r.nodes[n].visits >= 1
                   /\ r.nodes[r.nodes[n].parent].visits > r.nodes[n].visits

\* ------------------------------------------------------------------------
\* Selection
\* ------------------------------------------------------------------------
\* the UCB1 key that best_child of node p computes for its child k
KeyOf(r, p, k) == UCB1(r.nodes[k], r.nodes[p].visits, r.max_penalty)

\* the children of every node are stored in ascending order of action, and
\* the actions not yet tried are above them, in ascending order
ChildrenAscending(r) ==
    \A n \in Nodes(r) :
        LET kids    == r.nodes[n].children
            untried == r.heap[r.nodes[n].untried_actions]
        IN  /\ \A i, j \in 1..Len(kids) :
                   i < j => r.nodes[kids[i]].action < r.nodes[kids[j]].action
            /\ \A i, j \in 1..Len(untried) : i < j => untried[i] < untried[j]
            /\ \A i \in 1..Len(kids), j \in 1..Len(untried) :
                   r.nodes[kids[i]].action < untried[j]

\* the frame of one selection step of call c
SelectionFrame(c) ==
    LET r     == calls[c]
        p     == r.node
        after == calls'[c]
    IN  /\ after.nodes = r.nodes
        /\ IF after.pc = "select"
           THEN /\ Untried(r, p) = {}
                /\ r.nodes[p].children # <<>>
                /\ r.state.day < r.request.horizon
                /\ after.node \in Children(r, p)
                /\ after.state.day = r.state.day + 1
                /\ \A k \in Children(r, p) :
                       /\ KeyOf(r, p, k) <= KeyOf(r, p, after.node)
                       /\ KeyOf(r, p, k) = KeyOf(r, p, after.node) =>
                              r.nodes[after.node].action <= r.nodes[k].action
           ELSE /\ after.pc = "expand"
                /\ after.node = p
                /\ after.state = r.state
                /\ Untried(r, p) # {} \/ r.state.day >= r.request.horizon

\* C20: selection descends only through nodes that are fully expanded, have
\* a child and whose state is not terminal; it moves to a child of maximal
\* UCB1 value, the one with the lowest action among several, the children
\* of a node being stored in ascending order of action because expansion
\* takes the lowest untried action.
C20_SelectionDescent ==
    /\ [](\A c \in Calls : ChildrenAscending(calls[c]))
    /\ [][\A c \in Calls :
              (calls[c].pc = "select" /\ calls'[c] # calls[c]) =>
                  SelectionFrame(c)
         ]_vars

\* selection has just moved to a child although a sibling with a higher
\* action has the same UCB1 value
C20_Witness ==
    \E c \in Calls :
        LET r == calls[c]
            p == r.nodes[r.node].parent
        IN  /\ r.pc = "select"
            /\ r.node # Root
            /\ \E k \in Children(r, p) :
                   /\ KeyOf(r, p, k) = KeyOf(r, p, r.node)
                   /\ r.nodes[k].visits = r.nodes[r.node].visits
                   /\ r.nodes[k].total_reward = r.nodes[r.node].total_reward
                   /\ r.nodes[k].action > r.nodes[r.node].action

\* ------------------------------------------------------------------------
\* The simulated state of an iteration
\* ------------------------------------------------------------------------
\* the rollout of call r is about to start: line 283 has copied the state
\* and no pass of the rollout loop has run
RolloutStarts(r) == r.pc = "simulate" /\ r.sim_state.day = r.state.day

\* C21, as claimed: in every iteration the state from which the rollout
\* begins equals the InventoryState stored in the node reached by selection
\* and expansion.
C21_AsClaimed ==
    \A c \in Calls :
        LET r == calls[c]
        IN  RolloutStarts(r) => r.sim_state = r.nodes[r.node].state

\* C21, amended: in every iteration the rollout begins from the simulated
\* state of the iteration, the one that selection advanced with freshly
\* sampled demands and that expansion advanced last, and its cumulative
\* cost is carried into the reward; that state is the one stored in the
\* current node when the iteration expanded the node or stayed at the root,
\* and has the day of the stored state in any case.
C21_RolloutFromSimulatedState ==
    \A c \in Calls :
        LET r == calls[c]
        IN  /\ RolloutStarts(r) =>
                   /\ r.sim_state = r.state
                   /\ r.state.day = r.nodes[r.node].state.day
                   /\ (r.node = Root \/ r.nodes[r.node].visits = 0) =>
                          r.state = r.nodes[r.node].state
            /\ r.pc = "backprop" =>
                   /\ r.normalized_reward
                          = NormalizedReward(r.sim_state.total_cost,
                                             r.max_penalty)
                   /\ r.sim_state.day >= r.state.day

\* a rollout begins at a node selected again, from a state with another
\* stock and cost than the state stored in the node
C21_Witness ==
    \E c \in Calls :
        LET r == calls[c]
        IN  /\ RolloutStarts(r)
            /\ r.node # Root
            /\ r.nodes[r.node].visits >= 1
            /\ r.state.current_stock # r.nodes[r.node].state.current_stock
            /\ r.state.total_cost # r.nodes[r.node].state.total_cost

\* ------------------------------------------------------------------------
\* Termination of the search
\* ------------------------------------------------------------------------
RECURSIVE Depth(_, _)
\* the number of parent links from node n of call r to the root
Depth(r, n) ==
    IF r.nodes[n].parent = None THEN 0 ELSE 1 + Depth(r, r.nodes[n].parent)

\* range(iterations) runs max(0, iterations) times
Budget(r) == Max(0, r.request.iterations)

\* an upper bound of the passes of each loop of one iteration
PhaseBound(r) == Max(0, r.request.horizon) + 2

\* the steps the rest of the current iteration of call r takes at most
IterationRank(r) ==
    LET h == Max(0, r.request.horizon)
        b == PhaseBound(r)
    IN  CASE r.pc = "select"   -> 2 * b + 2 + (h - r.state.day)
          [] r.pc = "expand"   -> 2 * b + 1
          [] r.pc = "simulate" -> b + 1 + (h - r.sim_state.day)
          [] r.pc = "backprop" ->
                 IF r.node = None THEN 1 ELSE 2 + Depth(r, r.node)
          [] OTHER             -> 0

\* the steps the rest of the search of call r takes at most
SearchRank(r) ==
    CASE r.pc = "loop" -> 2 + (Budget(r) - r.i) * (3 * PhaseBound(r) + 2)
      [] r.pc \in {"select", "expand", "simulate", "backprop"} ->
             2 + (Budget(r) - r.i - 1) * (3 * PhaseBound(r) + 2)
               + IterationRank(r)
      [] r.pc = "extract" -> 1
      [] OTHER -> 0

\* C22: the search ends after exactly `iterations` iterations, without an
\* early exit; every iteration ends, each step of the search bringing it
\* closer to its end; and for horizon >= 0 the state whose cost becomes the
\* reward has day = horizon: selection, expansion and rollout make exactly
\* horizon transitions in an iteration.
C22_SearchTerminates ==
    /\ [](\A c \in Calls :
              LET r == calls[c]
              IN  /\ Searching(r) => (r.i >= 0 /\ r.i <= Budget(r))
                  /\ r.pc \in {"select", "expand", "simulate", "backprop"}
                         => r.i < Budget(r)
                  /\ r.pc = "extract" =>
                         (r.i = Budget(r) /\ r.nodes[Root].visits = r.i)
                  /\ SearchReturned(r) => r.i = Budget(r)
                  /\ (r.pc = "backprop" /\ r.request.horizon >= 0) =>
                         r.sim_state.day = r.request.horizon
                  /\ SearchRank(r) >= 0)
    /\ [][\A c \in Calls :
              (Searching(calls[c]) /\ calls'[c] # calls[c]) =>
                  /\ SearchRank(calls'[c]) < SearchRank(calls[c])
                  /\ calls'[c].pc # "except"
         ]_vars

\* a search of several iterations has ended, each iteration having walked
\* to the horizon through an expansion and a rollout
C22_Witness ==
    \E c \in Calls :
        LET r == calls[c]
        IN  /\ r.pc = "extract"
            /\ r.request.iterations >= 2
            /\ r.request.horizon >= 2
            /\ r.i = r.request.iterations
            /\ r.sim_state.day = r.request.horizon
            /\ r.state.day < r.sim_state.day

\* ------------------------------------------------------------------------
\* Searches over every demand history of a few days
\* ------------------------------------------------------------------------
Histories == UNION {[1..n -> 0..MaxQty] : n \in 1..MaxDays}

\* a history of mean 0, a holding cost that takes the reward to 0 within
\* three steps of the action space, and one iteration more than the root
\* has actions
ZeroMeanRequests ==
    {Request(TRUE, DfSales(<<0>>), 30, 2, 2, Len(ActionSpace(<<0>>)) + 1),
     Request(TRUE, DfSalesStock(<<0, 0>>, 1), 1, 2, 1, MaxIterWide)}

\* a constant history, an empty stock, and two iterations more than the
\* root has actions: two children of the root are visited twice
TieRequests ==
    {Request(TRUE, DfSalesStock(<<2>>, 0), 1, 2, 1,
             Len(ActionSpace(<<2>>)) + 2)}

HistoryRequests ==
    {Request(TRUE, DfSales(h), 1, 2, 1, 1) : h \in Histories}
        \cup ZeroMeanRequests \cup TieRequests

InitHist ==
    /\ \E request \in HistoryRequests :
           calls = [c \in Calls |-> IF c = 1 THEN NewCall(request) ELSE Idle]
    /\ active = 0
    /\ rng = 0
    /\ probe = NoProbe

SpecHist == InitHist /\ [][Next]_vars

\* sequence s is strictly ascending
Ascending(s) == \A i, j \in 1..Len(s) : i < j => s[i] < s[j]

\* C23: for a demand history of mean m >= 0 the action space of _run_mcts
\* is the set {0} united with the 10 evenly spaced values from 0.1 to 3*m,
\* sorted strictly ascending and so without duplicates; it holds 0 and no
\* negative quantity, and it is the same list from its construction to the
\* end of the run.
C23_ActionSpace ==
    \A c \in Calls :
        LET r   == calls[c]
            h   == r.demand_data
            lin == Linspace(h)
        IN  r.action_space # None =>
                LET A == r.heap[r.action_space]
                IN  /\ SetOf(A) = {0} \cup SetOf(lin)
                    /\ Len(lin) = 10
                    /\ 10 * lin[1] = Unit(h)
                    /\ Len(h) * lin[10] = 3 * SumSeq(h) * Unit(h)
                    /\ \A k \in 1..8 :
                           lin[k + 1] - lin[k] = lin[k + 2] - lin[k + 1]
                    /\ Ascending(A)
                    /\ A[1] = 0
                    /\ \A k \in 1..Len(A) : A[k] >= 0
                    /\ A = ActionSpace(h)

\* a run has ended with the action space of a history of mean 0, whose
\* linspace descends from 0.1 to 0.0 and repeats the 0, and the run removed
\* actions from the untried lists of several nodes
C23_Witness ==
    \E c \in Calls :
        LET r == calls[c]
        IN  /\ r.pc = "done"
            /\ SumSeq(r.demand_data) = 0
            /\ Len(r.nodes) > 2
            /\ Len(r.heap[r.action_space]) = 10
            /\ \E n \in Nodes(r) \ {Root} : Len(r.heap[r.nodes[n].untried_actions]) < 10

\* C24, as claimed: when the mean of the demand history is 0, with
\* iterations >= 1 and horizon >= 1, the order_quantity returned is 0 for
\* every number of iterations and every sequence of random draws.
C24_AsClaimed ==
    \A c \in Calls :
        LET r == calls[c]
        IN  (/\ SearchReturned(r)
             /\ SumSeq(r.demand_data) = 0
             /\ r.request.iterations >= 1
             /\ r.request.horizon >= 1) =>
                r.optimal_solution.order_quantity = 0

\* ------------------------------------------------------------------------
\* The bullwhip probe: _calculate_bullwhip_effect applied to a demand
\* history and an order quantity
\* ------------------------------------------------------------------------
\* the order quantities of the probe for a history: the action space of the
\* history and the whole quantities up to MaxQty
OrderQuantities(demand_history) ==
    SetOf(ActionSpace(demand_history))
        \cup {Qty(x, demand_history) : x \in 0..MaxQty}

InitBullwhip ==
    /\ calls = [c \in Calls |-> Idle]
    /\ active = 0
    /\ rng = 0
    /\ \E demand_data \in Histories :
       \E order_quantity \in OrderQuantities(demand_data) :
           probe = [applied |-> FALSE, demand_data |-> demand_data,
                    solution |-> [order_quantity |-> order_quantity],
                    metrics |-> NoBullwhip]

ProbeBullwhip ==
    /\ ~probe.applied
    /\ probe' = [probe EXCEPT
           !.applied = TRUE,
           !.metrics = calculate_bullwhip_effect(probe.demand_data,
                                                 probe.solution)]
    /\ UNCHANGED <<calls, active, rng>>

NextBullwhip == ProbeBullwhip

SpecBullwhip == InitBullwhip /\ [][NextBullwhip]_vars

\* the probe has applied _calculate_bullwhip_effect
BullwhipApplied == "metrics" \in DOMAIN probe /\ probe.applied

\* the metrics reported for a history are within the ranges of the claim
MetricsInRange(demand_data, metrics) ==
    /\ metrics.before = Frac(12, 5)
    /\ metrics.before.den > 0
    /\ metrics.after.den > 0
    /\ metrics.improvement_percentage.den > 0
    /\ FracLeq(metrics.after, metrics.before)
    /\ FracLeq(Frac(0, 1), metrics.improvement_percentage)
    /\ FracLeq(metrics.improvement_percentage, Frac(100, 1))
    /\ VarNum(demand_data) = 0 => metrics.after = Frac(1, 1)

\* C25: for every demand history and every order quantity
\* _calculate_bullwhip_effect reports an improvement_percentage between 0
\* and 100, before = 2.4 and after <= before; when the demand variance is 0
\* the after ratio is 1.0 and nothing is divided by zero.  The same holds
\* of the metrics process computes for a request.
C25_BullwhipInRange ==
    /\ BullwhipApplied =>
           MetricsInRange(probe.demand_data, probe.metrics)
    /\ \A c \in Calls :
           LET r == calls[c]
           IN  /\ Invoked(r, "_get_interpretation") =>
                      MetricsInRange(r.demand_data, r.bullwhip_metrics)
               /\ r.pc = "except" /\ BaselineReturned(r) =>
                      Invoked(r, "_get_interpretation")

\* the ratio of the order variance to the demand variance exceeds 2.4, and
\* the reported after is 2.4 and the improvement 0
C25_Witness ==
    /\ BullwhipApplied
    /\ VarNum(probe.demand_data) > 0
    /\ ~FracLeq(BullwhipAfter(probe.demand_data,
                              probe.solution.order_quantity), BullwhipBefore)
    /\ probe.metrics.after = BullwhipBefore
    /\ probe.metrics.improvement_percentage = Frac(0, 1)

\* ------------------------------------------------------------------------
\* The response of process
\* ------------------------------------------------------------------------
\* C26, as claimed: for every request whose dataset yields a non-empty
\* numeric demand series process returns success = True with the numeric
\* result, also when the baseline cost is 0: the savings percentage is never
\* a division by zero and a completed search never becomes a failure
\* response.
C26_AsClaimed ==
    \A c \in Calls :
        LET r == calls[c]
        IN  (r.response.returned /\ r.demand_data # <<>>) =>
                /\ r.response.success
                /\ r.response.has_data
                /\ r.response.error = "none"
                /\ r.response.data.expected_savings.percentage.den # 0

\* the call raised somewhere between lines 104 and 190
Raised(r) == r.exc # "none"

\* C27: process never propagates an exception to its caller: an error raised
\* during demand extraction, search, baseline, bullwhip computation or
\* response formatting is handled by the except clause, and the call ends by
\* returning an AgentResponse with success = False, the error string and no
\* data.
C27_NoExceptionPropagates ==
    /\ [](\A c \in Calls :
            LET r == calls[c]
            IN  /\ Raised(r) => r.pc \in {"except", "done"}
                /\ r.pc = "done" => r.response.returned
                /\ r.pc = "done" /\ Raised(r) =>
                       r.response = AgentResponse(FALSE, FALSE, NoData, r.exc))
    /\ [][\A c \in Calls :
            calls[c].pc = "except" /\ calls'[c] # calls[c] =>
                /\ calls'[c].pc = "done"
                /\ calls'[c].response.returned
                /\ ~calls'[c].response.success]_vars

\* a call whose search raised has returned a failure response
C27_Witness ==
    \E c \in Calls :
        LET r == calls[c]
        IN  /\ r.pc = "done"
            /\ r.exc = "TypeError"
            /\ Invoked(r, "_run_mcts")
            /\ r.response.returned
            /\ ~r.response.success
            /\ r.response.error = "TypeError"

\* ------------------------------------------------------------------------
\* The shape of the tree
\* ------------------------------------------------------------------------
\* C28: after any number of iterations every node at depth k of the tree
\* stores a state with day = k, no node is deeper than the horizon, a node at
\* depth = horizon has no children, and at every point of selection and
\* expansion the day of the simulated state is the depth of the current node.
C28_DayIsDepth ==
    \A c \in Calls :
        LET r == calls[c]
        IN  Searching(r) =>
                /\ \A n \in Nodes(r) :
                       /\ r.nodes[n].state.day = Depth(r, n)
                       /\ Depth(r, n) <= Max(0, r.request.horizon)
                       /\ Depth(r, n) >= r.request.horizon =>
                              r.nodes[n].children = <<>>
                /\ r.pc \in {"select", "expand"} =>
                       r.state.day = Depth(r, r.node)

\* selection stands one level below the root of a tree that has a node at
\* depth = horizon = 2
C28_Witness ==
    \E c \in Calls :
        LET r == calls[c]
        IN  /\ r.pc = "select"
            /\ r.request.horizon = 2
            /\ Depth(r, r.node) = 1
            /\ r.state.day = 1
            /\ \E n \in Nodes(r) :
                   Depth(r, n) = 2 /\ r.nodes[n].state.day = 2

\* the sum of the visit counts of the children of node n
ChildVisits(r, n) ==
    LET kids == r.nodes[n].children
    IN  SumSeq([k \in 1..Len(kids) |-> r.nodes[kids[k]].visits])

\* the search of call r is between two iterations, or over
BetweenIterations(r) == r.pc \in {"loop", "extract"}

\* C29: after any number of iterations the visit count of every node is at
\* least the sum of its children's; for horizon >= 1 the root's visits are
\* the sum of its children's, and a node other than the root at depth <
\* horizon has visits = 1 + the sum of its children's; explored_states is
\* the number of nodes other than the root and at most the number of
\* iterations, and it is the explored_states reported.
C29_VisitAccounting ==
    \A c \in Calls :
        LET r == calls[c]
        IN  /\ BetweenIterations(r) =>
                /\ \A n \in Nodes(r) :
                       /\ r.nodes[n].visits >= ChildVisits(r, n)
                       /\ n # Root /\ Depth(r, n) < r.request.horizon =>
                              r.nodes[n].visits = 1 + ChildVisits(r, n)
                /\ r.request.horizon >= 1 =>
                       r.nodes[Root].visits = ChildVisits(r, Root)
                /\ r.explored_states = Len(r.nodes) - 1
                /\ r.explored_states <= r.i
                /\ r.i <= Budget(r)
            /\ SearchReturned(r) =>
                /\ r.optimal_solution.explored_states = Len(r.nodes) - 1
                /\ r.optimal_solution.explored_states <= Budget(r)

\* the search is over with a node below the root that has children, and
\* with a node at depth = horizon
C29_Witness ==
    \E c \in Calls :
        LET r == calls[c]
        IN  /\ r.pc = "extract"
            /\ r.explored_states >= 4
            /\ \E n \in Nodes(r) :
                   /\ n # Root
                   /\ r.nodes[n].children # <<>>
                   /\ r.nodes[n].visits = 1 + ChildVisits(r, n)
                   /\ r.nodes[n].visits >= 3
            /\ \E n \in Nodes(r) :
                   /\ Depth(r, n) = r.request.horizon
                   /\ r.nodes[n].visits >= 1

\* the children of the root with the highest visit count
TopVisited(r) ==
    {k \in RootChildren(r) :
        \A j \in RootChildren(r) : r.nodes[j].visits <= r.nodes[k].visits}

\* C30: the action space always has at least two elements, 0 and 0.1, so at
\* the end of the search the root has a child if and only if iterations >= 1
\* and horizon >= 1; the first iteration then expands the root with action
\* 0, and when several children of the root tie on the highest visit count
\* the order_quantity returned is the lowest of their actions.
C30_FirstChildAndTies ==
    \A c \in Calls :
        LET r == calls[c]
            A == r.heap[r.action_space]
        IN  /\ Searching(r) =>
                /\ Len(A) >= 2
                /\ {0, Unit(r.demand_data) \div 10} \subseteq SetOf(A)
                /\ r.nodes[Root].children # <<>> =>
                       /\ r.nodes[Root].children[1] = Root + 1
                       /\ r.nodes[Root + 1].action = 0
                /\ r.i >= 1 /\ r.request.horizon >= 1 =>
                       r.nodes[Root].children # <<>>
            /\ r.pc = "extract" =>
                   (r.nodes[Root].children # <<>>
                       <=> (r.request.iterations >= 1
                               /\ r.request.horizon >= 1))
            /\ SearchReturned(r) /\ r.nodes[Root].children # <<>> =>
                   /\ \E k \in TopVisited(r) :
                          r.optimal_solution.order_quantity = r.nodes[k].action
                   /\ \A k \in TopVisited(r) :
                          r.optimal_solution.order_quantity <= r.nodes[k].action

\* two children of the root tie on the highest visit count, neither is the
\* child of action 0, and the lower of their actions is returned
C30_Witness ==
    \E c \in Calls :
        LET r == calls[c]
        IN  /\ SearchReturned(r)
            /\ Cardinality(TopVisited(r)) >= 2
            /\ Root + 1 \notin TopVisited(r)
            /\ r.optimal_solution.order_quantity > 0
            /\ \A k \in TopVisited(r) :
                   r.optimal_solution.order_quantity <= r.nodes[k].action

====
